---- MODULE Spec2Model ----
(***************************************************************************)
(* Model of Server/server.py: the /process request handler                 *)
(* process_video_complete, the .webm normaliser convert_webm_to_mp4 and    *)
(* the filesystem artifacts they create and delete.                        *)
(*                                                                         *)
(* A string that the code takes apart (a filename) is a sequence of its    *)
(* dot-separated segments: "clip.mp4" is <<"clip","mp4">>, ".WEBM" is      *)
(* <<"","WEBM">>, "clip." is <<"clip","">> and "" is <<"">>.               *)
(* A path is <<directory, filename>>.  A file is "absent", "empty"         *)
(* (zero bytes) or "data" (size > 0).                                      *)
(***************************************************************************)
EXTENDS Integers, Sequences, FiniteSets, TLC

\* ------------------------------------------------------------------------
\* Bounds
\* ------------------------------------------------------------------------

\* number of requests the server handles in one behaviour
MaxRequests == 2

\* ------------------------------------------------------------------------
\* Configuration and constants of server.py
\* ------------------------------------------------------------------------

UPLOAD_FOLDER == "uploads"

ALLOWED_EXTENSIONS == {"mp4", "avi", "mov", "wmv", "mkv", "webm", "webp"}

\* imported from audio: one fixed path, outside the upload folder
OUTPUT_AUDIO_FILENAME == <<".", <<"output_audio", "wav">>>>

None == "None"

\* request slots: "A" serves the requests of the sequential specifications
Slots == {"A", "B"}

\* ------------------------------------------------------------------------
\* Request inputs
\* ------------------------------------------------------------------------

\* file.filename values: '', no extension, disallowed extension, trailing
\* dot, plain .mp4, upper-case .WEBM, lower-case .webm, and a name that is
\* only an extension
FileNames ==
    { <<"">>, <<"clip">>, <<"clip", "txt">>, <<"clip", "">>,
      <<"clip", "mp4">>, <<"clip", "WEBM">>, <<"clip", "webm">>,
      <<"", "WEBM">> }

Missing == "<missing>"

\* the interview_question form field: not sent, sent empty, sent with text
Questions == {Missing, "", "Describe your experience"}

Inputs ==
    [has_video : BOOLEAN, question : Questions, filename : FileNames]

\* request.form.get(key, default)
form_get(value, default) == IF value = Missing THEN default ELSE value

\* str.lower() on one segment
lower(s) ==
    CASE s = "WEBM" -> "webm"
      [] s = "MP4"  -> "mp4"
      [] OTHER      -> s

\* allowed_file without the extension test: any name with a dot passes
allowed_file_any_extension(filename) == Len(filename) >= 2

\* '.' in filename and filename.rsplit('.', 1)[1].lower() in ALLOWED_EXTENSIONS
allowed_file(filename) ==
    /\ Len(filename) >= 2
    /\ lower(filename[Len(filename)]) \in ALLOWED_EXTENSIONS

RECURSIVE lstrip_dots(_)
lstrip_dots(f) ==
    IF Len(f) > 1 /\ f[1] = "" THEN lstrip_dots(Tail(f)) ELSE f

RECURSIVE rstrip_dots(_)
rstrip_dots(f) ==
    IF Len(f) > 1 /\ f[Len(f)] = "" THEN rstrip_dots(SubSeq(f, 1, Len(f) - 1)) ELSE f

\* werkzeug's secure_filename on these names: the final .strip("._")
secure_filename(f) == rstrip_dots(lstrip_dots(f))

\* filename.lower().endswith(".webm")
endswith_webm(filename) ==
    /\ Len(filename) >= 2
    /\ lower(filename[Len(filename)]) = "webm"

os_path_join(dir, filename) == <<dir, filename>>

os_path_basename(path) == path[2]

\* ------------------------------------------------------------------------
\* Filesystem
\* ------------------------------------------------------------------------

TmpPool == <<"tmp1", "tmp2", "tmp3", "tmp4">>

\* names tempfile.mkstemp(suffix=".mp4") can return; one per request at most
TmpNames == { <<TmpPool[i], "mp4">> : i \in 1..MaxRequests }

\* names an upload can be saved under
UploadNames == { secure_filename(f) : f \in FileNames }

Paths ==
    {OUTPUT_AUDIO_FILENAME}
        \cup { os_path_join(UPLOAD_FOLDER, n) : n \in UploadNames \cup TmpNames }

\* ------------------------------------------------------------------------
\* Outcomes of the collaborators and of the operating system
\* ------------------------------------------------------------------------

\* ffmpeg: non-zero exit with or without a partial output, zero exit with a
\* zero-byte output, zero exit with the output gone, zero exit with output
EncoderOutcomes == {"nonzero", "nonzero_partial", "zero_empty", "zero_missing", "ok"}

\* extract_audio: True with the audio written, False with nothing written,
\* False after writing part of the audio, or an exception
ExtractOutcomes == {"ok", "false", "false_partial", "raise"}

\* transcribe_audio: a transcript, None, or an exception
TranscribeOutcomes == {"text", "none", "raise"}

\* analyze_audio_features: a non-empty dict, None, an empty dict, or an exception
AudioOutcomes == {"metrics", "none", "empty", "raise"}

\* analyze_video_features: as above, or a dict carrying the key "error"
VideoOutcomes == {"metrics", "none", "empty", "error", "raise"}

\* os.remove: removes the file or raises OSError
RemoveOutcomes == {"ok", "OSError"}

NA == "na"

\* An Optional[Dict]: None, or the dict's items in order, each <<key, value>>
NoneDict == [is_none |-> TRUE, items |-> <<>>]

Dict(items) == [is_none |-> FALSE, items |-> items]

\* what analyze_audio_features returns for an outcome
audio_result(o) ==
    CASE o = "metrics" -> Dict(<< <<"speech_rate", "140">>, <<"pause_count", "3">> >>)
      [] o = "empty"   -> Dict(<<>>)
      [] OTHER         -> NoneDict

\* what analyze_video_features returns for an outcome
video_result(o) ==
    CASE o = "metrics" -> Dict(<< <<"eye_contact", "0.8">>,
                                  <<"emotion_distribution", << <<"happy", "4">>, <<"neutral", "1">> >> >> >>)
      [] o = "error"   -> Dict(<< <<"error", "No face detected">> >>)
      [] o = "empty"   -> Dict(<<>>)
      [] OTHER         -> NoneDict

\* Python truthiness of an Optional[Dict]
truthy(d) == ~d.is_none /\ Len(d.items) > 0

\* has_key that never finds the key
has_key_never(d, key) == FALSE

\* key in d
has_key(d, key) == \E i \in 1..Len(d.items) : d.items[i][1] = key

\* ------------------------------------------------------------------------
\* Gemini responses and the embedded-JSON extraction
\* ------------------------------------------------------------------------

\* analysis texts, as sequences of characters: "{" and "}" are braces, "k"
\* is well-formed JSON content, "x" is any other text: an object alone, in
\* free text, with bad content, braces in the wrong order, no brace, nested
\* objects, two objects, only "{", only "}"
AnalysisTexts ==
    { <<"{", "k", "}">>,
      <<"x", "{", "k", "}", "x">>,
      <<"{", "x", "}">>,
      <<"}", "x", "{">>,
      <<"x">>,
      <<"{", "{", "k", "}", "}">>,
      <<"{", "k", "}", "x", "{", "k", "}">>,
      <<"x", "{", "k">>,
      <<"k", "}", "x">> }

GeminiOutcomes ==
    [kind : {"analysis"}, text : AnalysisTexts]
        \cup { [kind |-> "error", text |-> <<"quota">>],
               [kind |-> "neither", text |-> <<>>],
               [kind |-> "raise", text |-> <<>>] }

NoGemini == [kind |-> NA, text |-> <<>>]

\* str.find(c): index of the first c, 0-based, -1 if none
find(s, c) ==
    IF \E i \in 1..Len(s) : s[i] = c
    THEN (CHOOSE i \in 1..Len(s) : s[i] = c /\ \A j \in 1..(i - 1) : s[j] # c) - 1
    ELSE -1

\* rfind that stops at the first c, as str.find does
rfind_first(s, c) ==
    IF \E i \in 1..Len(s) : s[i] = c
    THEN (CHOOSE i \in 1..Len(s) : s[i] = c /\ \A j \in 1..(i - 1) : s[j] # c) - 1
    ELSE -1

\* str.rfind(c): index of the last c, 0-based, -1 if none
rfind(s, c) ==
    IF \E i \in 1..Len(s) : s[i] = c
    THEN (CHOOSE i \in 1..Len(s) : s[i] = c /\ \A j \in (i + 1)..Len(s) : s[j] # c) - 1
    ELSE -1

\* Python slice s[a:b] for 0 <= a < b <= len(s)
slice(s, a, b) == SubSeq(s, a + 1, b)

\* whether json.loads accepts s: an object holding nothing, content, or an object
RECURSIVE json_valid(_)
json_valid(s) ==
    /\ Len(s) >= 2
    /\ s[1] = "{"
    /\ s[Len(s)] = "}"
    /\ LET inner == SubSeq(s, 2, Len(s) - 1)
       IN  \/ inner = <<>>
           \/ inner = <<"k">>
           \/ json_valid(inner)

\* the value stored in results["gemini_analysis"] for an analysis text
extract_analysis(analysis_text) ==
    LET json_start == find(analysis_text, "{")
        json_end   == rfind(analysis_text, "}") + 1
    IN  IF json_start >= 0 /\ json_end > json_start
        THEN LET json_str == slice(analysis_text, json_start, json_end)
             IN  IF json_valid(json_str)
                 THEN [parsed |-> TRUE, value |-> json_str]
                 ELSE [parsed |-> FALSE, value |-> analysis_text]
        ELSE [parsed |-> FALSE, value |-> analysis_text]

\* ------------------------------------------------------------------------
\* Metric formatting for the Gemini prompt.  A text is a sequence of lines,
\* a line a sequence of its pieces; the empty text is <<>>.
\* ------------------------------------------------------------------------

\* key.replace('_', ' ').title()
title_label(key) ==
    CASE key = "speech_rate"          -> "Speech Rate"
      [] key = "pause_count"          -> "Pause Count"
      [] key = "eye_contact"          -> "Eye Contact"
      [] key = "emotion_distribution" -> "Emotion Distribution"
      [] key = "error"                -> "Error"
      [] OTHER                        -> key

\* lines 187-191
format_audio_metrics(audio_metrics) ==
    IF truthy(audio_metrics)
    THEN << <<"Audio Analysis:">> >>
            \o [i \in 1..Len(audio_metrics.items) |->
                   <<"- ", title_label(audio_metrics.items[i][1]), ": ",
                     audio_metrics.items[i][2]>>]
    ELSE <<>>

\* lines 196-204: the lines of one item of video_metrics
video_item_lines(item) ==
    IF item[1] = "emotion_distribution"
    THEN << <<"- ", title_label(item[1]), ":">> >>
            \o [j \in 1..Len(item[2]) |-> <<"  - ", item[2][j][1], ": ", item[2][j][2]>>]
    ELSE << <<"- ", title_label(item[1]), ": ", item[2]>> >>

RECURSIVE video_lines(_)
video_lines(items) ==
    IF items = <<>> THEN <<>>
    ELSE video_item_lines(Head(items)) \o video_lines(Tail(items))

\* format_video_metrics without the test for the "error" key
format_video_metrics_with_error(video_metrics) ==
    IF truthy(video_metrics)
    THEN << <<"Video Analysis:">> >> \o video_lines(video_metrics.items)
    ELSE <<>>

\* lines 193-204
format_video_metrics(video_metrics) ==
    IF truthy(video_metrics) /\ ~has_key(video_metrics, "error")
    THEN << <<"Video Analysis:">> >> \o video_lines(video_metrics.items)
    ELSE <<>>

\* ------------------------------------------------------------------------
\* State
\* ------------------------------------------------------------------------

VARIABLES
    fs,              \* the filesystem: path -> "absent" | "empty" | "data"
    GEMINI_API_KEY,  \* whether the imported key is set (truthy)
    req,             \* per slot: the request being handled and its locals
    served,          \* number of requests accepted so far
    mode,            \* "seq": independent requests; "rerun": the first request is
                     \* repeated; "conc": two requests in flight at once
    prev             \* in "rerun" mode: input, outcomes and response of the first request

vars == <<fs, GEMINI_API_KEY, req, served, mode, prev>>

NoPath == <<"", <<>>>>

NoRsp == [code |-> 0, body |-> <<>>]

NoInput == [has_video |-> FALSE, question |-> Missing, filename |-> <<"">>]

\* what the environment did in each stage of a request (NA: stage not reached)
NoOut ==
    [mkstemp |-> <<>>, encoder |-> NA, extract |-> NA, transcribe |-> NA, audio |-> NA,
     video |-> NA, gemini |-> NoGemini,
     rm_audio |-> NA, rm_original |-> NA, rm_audio_except |-> NA, rm_converted |-> NA]

IdleReq ==
    [pc |-> "idle", input |-> NoInput, fs0 |-> fs, saved |-> FALSE,
     interview_question |-> "", filename |-> <<>>, file_path |-> NoPath,
     original_file_path |-> NoPath, results |-> <<>>, transcript |-> None,
     audio_metrics |-> NoneDict, video_metrics |-> NoneDict,
     audio_metrics_str |-> <<>>, video_metrics_str |-> <<>>,
     exc |-> None, calls |-> <<>>, out |-> NoOut, rsp |-> NoRsp]

exists(path) == fs[path] # "absent"

\* Response that leaves out the status code, so that Flask answers 200
Response_default_status(code, body) == [code |-> 200, body |-> body]

\* jsonify(body), code
Response(code, body) == [code |-> code, body |-> body]

\* the slots a specification lets run: one request at a time, or in "conc"
\* mode two requests in flight, their stages interleaved (threaded server)
Sched(r) == r = "A" \/ mode = "conc"

\* what the first request got at a stage
Before(stage) == IF stage = "input" THEN prev.input ELSE prev.out[stage]

\* the requests and outcomes followed in "conc" mode: a subset of those of
\* "seq" mode, with an .mp4 and a .webm upload, both conversion results,
\* extraction and transcription succeeding or failing, and an analyzer raising
ConcurrentEnv ==
    [input |-> { [has_video |-> TRUE, question |-> "Describe your experience",
                  filename |-> <<"clip", "mp4">>],
                 [has_video |-> TRUE, question |-> "Describe your experience",
                  filename |-> <<"clip", "webm">>] },
     encoder |-> {"ok", "nonzero"},
     extract |-> {"ok", "false"},
     transcribe |-> {"text", "none"},
     audio |-> {"metrics"},
     video |-> {"metrics", "raise"},
     gemini |-> { [kind |-> "analysis", text |-> <<"{", "k", "}">>] },
     rm_audio |-> {"ok"},
     rm_original |-> {"ok"},
     rm_audio_except |-> {"ok"},
     rm_converted |-> {"ok"}]

\* the choices at a stage: any of S; in a rerun what happened the first time;
\* in "conc" mode those of ConcurrentEnv
Pick(stage, S) ==
    IF mode = "rerun" /\ prev.set /\ Before(stage) \in S THEN {Before(stage)}
    ELSE IF mode = "conc" THEN ConcurrentEnv[stage] \cap S
    ELSE S

Init ==
    /\ fs = [p \in Paths |-> "absent"]
    /\ GEMINI_API_KEY \in BOOLEAN
    /\ req = [r \in Slots |-> [IdleReq EXCEPT !.fs0 = [p \in Paths |-> "absent"]]]
    /\ served = 0
    /\ mode = "seq"
    /\ prev = [set |-> FALSE, input |-> NoInput, out |-> NoOut, rsp |-> NoRsp]

InitRerun ==
    /\ fs = [p \in Paths |-> "absent"]
    /\ GEMINI_API_KEY \in BOOLEAN
    /\ req = [r \in Slots |-> [IdleReq EXCEPT !.fs0 = [p \in Paths |-> "absent"]]]
    /\ served = 0
    /\ mode = "rerun"
    /\ prev = [set |-> FALSE, input |-> NoInput, out |-> NoOut, rsp |-> NoRsp]

InitConcurrent ==
    /\ fs = [p \in Paths |-> "absent"]
    /\ GEMINI_API_KEY \in BOOLEAN
    /\ req = [r \in Slots |-> [IdleReq EXCEPT !.fs0 = [p \in Paths |-> "absent"]]]
    /\ served = 0
    /\ mode = "conc"
    /\ prev = [set |-> FALSE, input |-> NoInput, out |-> NoOut, rsp |-> NoRsp]

\* ------------------------------------------------------------------------
\* process_video_complete, lines 107-147: validation, save, results
\* ------------------------------------------------------------------------

\* validation_error without the interview_question test of lines 112-114
validation_error_no_question(inp) ==
    IF ~inp.has_video THEN "No video part in the request"
    ELSE IF inp.filename = <<"">> THEN "No selected file"
    ELSE IF ~allowed_file(inp.filename) THEN "File type not allowed"
    ELSE None

\* lines 107-124 and 285-286: the error of a request that is refused, or None
validation_error(inp) ==
    IF ~inp.has_video THEN "No video part in the request"
    ELSE IF form_get(inp.question, "") = "" THEN "No interview_question provided"
    ELSE IF inp.filename = <<"">> THEN "No selected file"
    ELSE IF ~allowed_file(inp.filename) THEN "File type not allowed"
    ELSE None

\* lines 143-147
init_results(filename, interview_question) ==
    [video_file |-> filename, interview_question |-> interview_question,
     status |-> "processing"]

Validate(r) ==
    /\ Sched(r)
    /\ req[r].pc = "idle"
    /\ served < MaxRequests
    /\ served' = served + 1
    /\ \E inp \in Pick("input", Inputs) :
        LET error == validation_error(inp)
            interview_question == form_get(inp.question, "")
            start == [req[r] EXCEPT !.input = inp, !.fs0 = fs,
                                    !.interview_question = interview_question]
        IN  IF error # None
            THEN /\ req' = [req EXCEPT ![r] =
                        [start EXCEPT !.pc = "done",
                                      !.rsp = Response(400, [error |-> error])]]
                 /\ fs' = fs
            ELSE LET filename  == secure_filename(inp.filename)
                     file_path == os_path_join(UPLOAD_FOLDER, filename)
                 IN  /\ fs' = [fs EXCEPT ![file_path] = "data"]
                     /\ req' = [req EXCEPT ![r] =
                            [start EXCEPT
                                !.saved = TRUE,
                                !.filename = filename,
                                !.file_path = file_path,
                                !.original_file_path = file_path,
                                !.results = IF endswith_webm(filename) THEN @
                                            ELSE init_results(filename, interview_question),
                                !.pc = IF endswith_webm(filename) THEN "normalize"
                                       ELSE "extract"]]
    /\ UNCHANGED <<GEMINI_API_KEY, mode, prev>>

\* ------------------------------------------------------------------------
\* convert_webm_to_mp4 (lines 35-91) and its call (lines 133-147)
\* ------------------------------------------------------------------------

\* the state of the output file when the encoder ends; mkstemp left it empty
encoder_output(o) ==
    CASE o = "ok"              -> "data"
      [] o = "nonzero_partial" -> "data"
      [] o = "zero_missing"    -> "absent"
      [] OTHER                 -> "empty"

\* lines 73-86: the output file when convert_webm_to_mp4 returns
converted_file(o) ==
    IF o \in {"nonzero", "nonzero_partial"}
    THEN "absent"                \* CalledProcessError: unlink if it exists
    ELSE encoder_output(o)       \* returned as is, with the path or with None

\* convert_succeeds that takes every return of the encoder for a path
convert_succeeds_always(o) == TRUE

\* line 75: whether convert_webm_to_mp4 returns the path
convert_succeeds(o) ==
    /\ o \notin {"nonzero", "nonzero_partial"}
    /\ encoder_output(o) = "data"

\* mkstemp replaced by one fixed output name, whether or not it exists
mkstemp_fixed_name == { <<TmpPool[1], "mp4">> }

\* lines 47-49: tempfile.mkstemp returns a name no file in the folder has
mkstemp ==
    {n \in TmpNames : ~exists(os_path_join(UPLOAD_FOLDER, n))}

Normalize(r) ==
    /\ Sched(r)
    /\ req[r].pc = "normalize"
    /\ \E name \in mkstemp :
       \E o \in Pick("encoder", EncoderOutcomes) :
        LET mp4_path == os_path_join(UPLOAD_FOLDER, name)
            called   == [req[r] EXCEPT !.calls = Append(@, "ffmpeg"),
                                       !.out.mkstemp = name,
                                       !.out.encoder = o]
        IN  /\ fs' = [fs EXCEPT ![mp4_path] = converted_file(o)]
            /\ IF convert_succeeds(o)
               THEN req' = [req EXCEPT ![r] =
                        [called EXCEPT
                            !.file_path = mp4_path,
                            !.filename = os_path_basename(mp4_path),
                            !.results = init_results(os_path_basename(mp4_path),
                                                     req[r].interview_question),
                            !.pc = "extract"]]
               ELSE req' = [req EXCEPT ![r] =
                        [called EXCEPT
                            !.pc = "done",
                            !.rsp = Response(500,
                                [error |-> "Failed to convert .webm file to .mp4"])]]
    /\ UNCHANGED <<GEMINI_API_KEY, served, mode, prev>>

\* ------------------------------------------------------------------------
\* process_video_complete, lines 149-284: the stages inside the try block
\* ------------------------------------------------------------------------

\* os.remove(path) with outcome o, on filesystem f
os_remove(f, path, o) == IF o = "ok" THEN [f EXCEPT ![path] = "absent"] ELSE f

\* the outcomes of os.remove(path) behind an os.path.exists(path) guard
remove_if_exists(path, stage) ==
    IF exists(path) THEN Pick(stage, RemoveOutcomes) ELSE {NA}

\* str(e) of the exception a stage raised
exception_text(exc) ==
    CASE exc = "extract_audio"              -> "Error processing video: extract_audio failed"
      [] exc = "transcribe_audio"           -> "Error processing video: transcribe_audio failed"
      [] exc = "analyze_audio_features"     -> "Error processing video: analyze_audio_features failed"
      [] exc = "analyze_video_features"     -> "Error processing video: analyze_video_features failed"
      [] exc = "analyze_video_with_gemini"  -> "Error processing video: analyze_video_with_gemini failed"
      [] OTHER                              -> "Error processing video: [Errno 13] Permission denied"

UnhandledErrors ==
    { exception_text(e) : e \in {"extract_audio", "transcribe_audio", "analyze_audio_features",
                                 "analyze_video_features", "analyze_video_with_gemini",
                                 "OSError"} }

\* what extract_audio leaves at the audio path
extract_writes(f, o) ==
    IF o \in {"ok", "false_partial"}
    THEN [f EXCEPT ![OUTPUT_AUDIO_FILENAME] = "data"]
    ELSE f

\* lines 150-157
ExtractAudio(r) ==
    /\ Sched(r)
    /\ req[r].pc = "extract"
    /\ \E o \in Pick("extract", ExtractOutcomes) :
        LET called == [req[r] EXCEPT !.calls = Append(@, "extract_audio"),
                                     !.out.extract = o]
        IN  /\ fs' = extract_writes(fs, o)
            /\ req' = [req EXCEPT ![r] =
                    CASE o = "ok"    -> [called EXCEPT !.pc = "transcribe"]
                      [] o = "raise" -> [called EXCEPT !.pc = "except",
                                                       !.exc = "extract_audio"]
                      [] OTHER       -> [called EXCEPT
                                            !.pc = "done",
                                            !.rsp = Response(500,
                                                [error |-> "Audio extraction failed",
                                                 video_file |-> req[r].filename])]]
    /\ UNCHANGED <<GEMINI_API_KEY, served, mode, prev>>

\* lines 163-170: the transcript is None
transcription_failed(r, called, rm) ==
    IF rm = "OSError"
    THEN /\ fs' = fs
         /\ req' = [req EXCEPT ![r] =
                [called EXCEPT !.out.rm_audio = rm, !.pc = "except", !.exc = "OSError"]]
    ELSE /\ fs' = IF rm = NA THEN fs ELSE os_remove(fs, OUTPUT_AUDIO_FILENAME, rm)
         /\ req' = [req EXCEPT ![r] =
                [called EXCEPT
                    !.out.rm_audio = rm,
                    !.pc = "done",
                    !.rsp = Response(500,
                        [error |-> "Transcription failed",
                         video_file |-> req[r].filename])]]

\* lines 159-172
Transcribe(r) ==
    /\ Sched(r)
    /\ req[r].pc = "transcribe"
    /\ \E o \in Pick("transcribe", TranscribeOutcomes) :
        LET called == [req[r] EXCEPT !.calls = Append(@, "transcribe_audio"),
                                     !.out.transcribe = o]
        IN  CASE o = "text" ->
                    /\ fs' = fs
                    /\ req' = [req EXCEPT ![r] =
                           [called EXCEPT
                               !.transcript = "I led a team of five",
                               !.results = ("transcript" :> "I led a team of five") @@ @,
                               !.pc = "analyze_audio"]]
              [] o = "raise" ->
                    /\ fs' = fs
                    /\ req' = [req EXCEPT ![r] =
                           [called EXCEPT !.pc = "except", !.exc = "transcribe_audio"]]
              [] OTHER ->
                    \E rm \in remove_if_exists(OUTPUT_AUDIO_FILENAME, "rm_audio") :
                        transcription_failed(r, called, rm)
    /\ UNCHANGED <<GEMINI_API_KEY, served, mode, prev>>

\* lines 174-179
AnalyzeAudio(r) ==
    /\ Sched(r)
    /\ req[r].pc = "analyze_audio"
    /\ \E o \in Pick("audio", AudioOutcomes) :
        LET called == [req[r] EXCEPT !.calls = Append(@, "analyze_audio_features"),
                                     !.out.audio = o]
            audio_metrics == audio_result(o)
        IN  req' = [req EXCEPT ![r] =
                IF o = "raise"
                THEN [called EXCEPT !.pc = "except", !.exc = "analyze_audio_features"]
                ELSE [called EXCEPT
                        !.audio_metrics = audio_metrics,
                        !.results = IF truthy(audio_metrics)
                                    THEN ("audio_metrics" :> audio_metrics.items) @@ @
                                    ELSE @,
                        !.pc = "analyze_video"]]
    /\ UNCHANGED <<fs, GEMINI_API_KEY, served, mode, prev>>

\* lines 181-184
AnalyzeVideo(r) ==
    /\ Sched(r)
    /\ req[r].pc = "analyze_video"
    /\ \E o \in Pick("video", VideoOutcomes) :
        LET called == [req[r] EXCEPT !.calls = Append(@, "analyze_video_features"),
                                     !.out.video = o]
            video_metrics == video_result(o)
        IN  req' = [req EXCEPT ![r] =
                IF o = "raise"
                THEN [called EXCEPT !.pc = "except", !.exc = "analyze_video_features"]
                ELSE [called EXCEPT
                        !.video_metrics = video_metrics,
                        !.results = IF truthy(video_metrics) /\ ~has_key(video_metrics, "error")
                                    THEN ("video_metrics" :> video_metrics.items) @@ @
                                    ELSE @,
                        !.pc = "synthesize"]]
    /\ UNCHANGED <<fs, GEMINI_API_KEY, served, mode, prev>>

\* lines 215-235: what a Gemini result adds to results
\* gemini_fields whose .get("error") has no default
gemini_fields_no_default(gemini_result) ==
    CASE gemini_result.kind = "analysis" ->
            ("gemini_analysis" :> extract_analysis(gemini_result.text))
      [] OTHER ->
            ("gemini_error" :> gemini_result.text)

gemini_fields(gemini_result) ==
    CASE gemini_result.kind = "analysis" ->
            ("gemini_analysis" :> extract_analysis(gemini_result.text))
      [] gemini_result.kind = "error" ->
            ("gemini_error" :> gemini_result.text)
      [] OTHER ->
            ("gemini_error" :> <<"Unknown Gemini error">>)

\* unconfigured_fields with the message of the other gemini_error branch
unconfigured_fields_unknown == ("gemini_error" :> <<"Unknown Gemini error">>)

\* lines 236-237: what results gets when GEMINI_API_KEY is not set
unconfigured_fields == ("gemini_error" :> <<"Gemini API key not configured">>)

\* lines 186-237
Synthesize(r) ==
    /\ Sched(r)
    /\ req[r].pc = "synthesize"
    /\ LET formatted == [req[r] EXCEPT
                            !.audio_metrics_str = format_audio_metrics(req[r].audio_metrics),
                            !.video_metrics_str = format_video_metrics(req[r].video_metrics)]
       IN  IF GEMINI_API_KEY
           THEN \E o \in Pick("gemini", GeminiOutcomes) :
                    LET called == [formatted EXCEPT
                                      !.calls = Append(@, "analyze_video_with_gemini"),
                                      !.out.gemini = o]
                    IN  req' = [req EXCEPT ![r] =
                            IF o.kind = "raise"
                            THEN [called EXCEPT !.pc = "except",
                                                !.exc = "analyze_video_with_gemini"]
                            ELSE [called EXCEPT !.results = gemini_fields(o) @@ @,
                                                !.pc = "cleanup"]]
           ELSE req' = [req EXCEPT ![r] =
                    [formatted EXCEPT
                        !.results = unconfigured_fields @@ @,
                        !.pc = "cleanup"]]
    /\ UNCHANGED <<fs, GEMINI_API_KEY, served, mode, prev>>

\* remove_original without the comparison of the two paths
remove_original_any(original_file_path, file_path) == exists(original_file_path)

\* remove_original with the comparison of the two paths inverted
remove_original_inverted(original_file_path, file_path) ==
    original_file_path = file_path /\ exists(original_file_path)

\* lines 246-247: whether the original upload is to be removed
remove_original(original_file_path, file_path) ==
    original_file_path # file_path /\ exists(original_file_path)

\* lines 239-259
Finalize(r) ==
    /\ Sched(r)
    /\ req[r].pc = "cleanup"
    /\ \E ra \in remove_if_exists(OUTPUT_AUDIO_FILENAME, "rm_audio") :
       \E ro \in (IF remove_original(req[r].original_file_path, req[r].file_path)
                  THEN Pick("rm_original", RemoveOutcomes) ELSE {NA}) :
        /\ fs' = os_remove(os_remove(fs, OUTPUT_AUDIO_FILENAME, ra),
                           req[r].original_file_path, ro)
        /\ req' = [req EXCEPT ![r] =
                [req[r] EXCEPT
                    !.out.rm_audio = ra,
                    !.out.rm_original = ro,
                    !.results.status = "complete",
                    !.pc = "done",
                    !.rsp = Response(200, [req[r].results EXCEPT !.status = "complete"])]]
    /\ UNCHANGED <<GEMINI_API_KEY, served, mode, prev>>

\* remove_converted without the comparison of the two paths
remove_converted_any(original_file_path, file_path) == exists(file_path)

\* lines 269-270: whether the converted file is to be removed
remove_converted(original_file_path, file_path) ==
    original_file_path # file_path /\ exists(file_path)

\* lines 261-284
HandleException(r) ==
    /\ Sched(r)
    /\ req[r].pc = "except"
    /\ \E ra \in remove_if_exists(OUTPUT_AUDIO_FILENAME, "rm_audio_except") :
       \E rc \in (IF remove_converted(req[r].original_file_path, req[r].file_path)
                  THEN Pick("rm_converted", RemoveOutcomes) ELSE {NA}) :
        /\ fs' = os_remove(os_remove(fs, OUTPUT_AUDIO_FILENAME, ra), req[r].file_path, rc)
        /\ req' = [req EXCEPT ![r] =
                [req[r] EXCEPT
                    !.out.rm_audio_except = ra,
                    !.out.rm_converted = rc,
                    !.pc = "done",
                    !.rsp = Response(500,
                        [error |-> exception_text(req[r].exc),
                         video_file |-> req[r].filename])]]
    /\ UNCHANGED <<GEMINI_API_KEY, served, mode, prev>>

\* the response has been sent; the server takes the next request
NextRequest(r) ==
    /\ Sched(r)
    /\ req[r].pc = "done"
    /\ served < MaxRequests
    /\ req' = [req EXCEPT ![r] = IdleReq]
    /\ prev' = IF mode = "rerun" /\ ~prev.set
               THEN [set |-> TRUE, input |-> req[r].input, out |-> req[r].out,
                     rsp |-> req[r].rsp]
               ELSE prev
    /\ UNCHANGED <<fs, GEMINI_API_KEY, served, mode>>

Next ==
    \E r \in Slots :
        \/ Validate(r)
        \/ Normalize(r)
        \/ ExtractAudio(r)
        \/ Transcribe(r)
        \/ AnalyzeAudio(r)
        \/ AnalyzeVideo(r)
        \/ Synthesize(r)
        \/ Finalize(r)
        \/ HandleException(r)
        \/ NextRequest(r)

\* requests handled one after the other, each with any input and any outcomes
Spec == Init /\ [][Next]_vars

\* the first request is handled again: same input, same collaborator outcomes
SpecRerun == InitRerun /\ [][Next]_vars

\* two requests are handled at the same time, stage by stage in any order
SpecConcurrent == InitConcurrent /\ [][Next]_vars

\* ------------------------------------------------------------------------
\* Vocabulary of the properties
\* ------------------------------------------------------------------------

\* the response of slot r has been returned
Responded(r) == req[r].pc = "done"

\* the response of slot r is the error object with this message
ErrorIs(r, message) ==
    /\ "error" \in DOMAIN req[r].rsp.body
    /\ req[r].rsp.body["error"] = message

\* the request of slot r went through convert_webm_to_mp4, which returned a path
Converted(r) == convert_succeeds(req[r].out.encoder) /\ req[r].out.encoder # NA

\* the path convert_webm_to_mp4 allocated for the request of slot r
AllocatedPath(r) == os_path_join(UPLOAD_FOLDER, req[r].out.mkstemp)

\* the path the upload of slot r was saved under
UploadPath(r) == os_path_join(UPLOAD_FOLDER, secure_filename(req[r].input.filename))

Invoked(r, collaborator) ==
    \E i \in 1..Len(req[r].calls) : req[r].calls[i] = collaborator

ValidationErrors ==
    {"No video part in the request", "No interview_question provided",
     "No selected file", "File type not allowed"}

\* ------------------------------------------------------------------------
\* C1
\* ------------------------------------------------------------------------

\* C1: once a response has been returned, on any exit path, no file exists at
\* OUTPUT_AUDIO_FILENAME.
C1_AudioAbsentAfterResponse ==
    \A r \in Slots : Responded(r) => ~exists(OUTPUT_AUDIO_FILENAME)

\* ------------------------------------------------------------------------
\* C2
\* ------------------------------------------------------------------------

C3_FailedConversionLeavesNoOutput ==
    \A r \in Slots :
        Responded(r) /\ req[r].out.encoder # NA /\ ~Converted(r)
            => ~exists(AllocatedPath(r)) /\ exists(UploadPath(r))

\* ------------------------------------------------------------------------
\* C4
\* ------------------------------------------------------------------------

\* C4: a request whose interview_question is missing or empty is answered 400
\* with a validation error, writes no file and invokes no collaborator.
C4_NoQuestionRejected ==
    \A r \in Slots :
        Responded(r) /\ req[r].input.question \in {Missing, ""} =>
            /\ req[r].rsp.code = 400
            /\ DOMAIN req[r].rsp.body = {"error"}
            /\ req[r].rsp.body["error"] \in ValidationErrors
            /\ req[r].input.has_video => ErrorIs(r, "No interview_question provided")
            /\ ~req[r].saved
            /\ fs = req[r].fs0
            /\ req[r].calls = <<>>

\* a request with a video part, an allowed filename and no question was refused
C4_Witness ==
    \E r \in Slots :
        /\ Responded(r)
        /\ req[r].input.question \in {Missing, ""}
        /\ req[r].input.has_video
        /\ req[r].input.filename = <<"clip", "mp4">>
        /\ req[r].rsp.code = 400

\* ------------------------------------------------------------------------
\* C5
\* ------------------------------------------------------------------------

\* the filename has no extension, or one outside ALLOWED_EXTENSIONS
BadExtension(filename) ==
    \/ Len(filename) = 1
    \/ lower(filename[Len(filename)]) \notin {"mp4", "avi", "mov", "wmv", "mkv", "webm", "webp"}

\* C5: a request whose filename has no extension or a disallowed one is
\* answered 400 with a validation error, file.save is never executed and the
\* filesystem is unchanged.
C5_BadExtensionRejected ==
    \A r \in Slots :
        Responded(r) /\ BadExtension(req[r].input.filename) =>
            /\ req[r].rsp.code = 400
            /\ req[r].rsp.body["error"] \in ValidationErrors
            /\ ~req[r].saved
            /\ fs = req[r].fs0
            /\ req[r].calls = <<>>

\* a complete request with a disallowed extension was refused for its file type
C5_Witness ==
    \E r \in Slots :
        /\ Responded(r)
        /\ req[r].input.filename = <<"clip", "txt">>
        /\ req[r].input.has_video
        /\ req[r].input.question = "Describe your experience"
        /\ ErrorIs(r, "File type not allowed")

\* ------------------------------------------------------------------------
\* C6
\* ------------------------------------------------------------------------

Analyzers ==
    {"analyze_audio_features", "analyze_video_features", "analyze_video_with_gemini"}

\* C6: when extraction succeeded and transcribe_audio returned None, the
\* response is 500 'Transcription failed', the audio file has been deleted and
\* no analyzer has been invoked.
C6_TranscriptionFailure ==
    \A r \in Slots :
        Responded(r) /\ req[r].out.extract = "ok" /\ req[r].out.transcribe = "none" =>
            /\ req[r].rsp.code = 500
            /\ ErrorIs(r, "Transcription failed")
            /\ ~exists(OUTPUT_AUDIO_FILENAME)
            /\ \A c \in Analyzers : ~Invoked(r, c)

\* ------------------------------------------------------------------------
\* C7
\* ------------------------------------------------------------------------

AudioFailed(r) == req[r].out.audio \in {"raise", "none", "empty"}

VideoFailed(r) == req[r].out.video \in {"raise", "none", "empty", "error"}

AnalyzerRaised(r) == req[r].out.audio = "raise" \/ req[r].out.video = "raise"

\* the 200 response of slot r is the complete result, with audio_metrics and
\* video_metrics present exactly when the analyzer returned usable metrics
CompleteResult(r) ==
    /\ req[r].rsp.code = 200
    /\ {"video_file", "interview_question", "status", "transcript"}
            \subseteq DOMAIN req[r].rsp.body
    /\ req[r].rsp.body["status"] = "complete"
    /\ "audio_metrics" \in DOMAIN req[r].rsp.body <=> req[r].out.audio = "metrics"
    /\ "video_metrics" \in DOMAIN req[r].rsp.body <=> req[r].out.video = "metrics"

UnconfiguredResult(r) ==
    /\ CompleteResult(r)
    /\ "gemini_error" \in DOMAIN req[r].rsp.body
    /\ req[r].rsp.body["gemini_error"] = <<"Gemini API key not configured">>
    /\ "gemini_analysis" \notin DOMAIN req[r].rsp.body
    /\ req[r].rsp.body["transcript"] = req[r].transcript
    /\ req[r].out.audio = "metrics" =>
            req[r].rsp.body["audio_metrics"] = audio_result("metrics").items
    /\ req[r].out.video = "metrics" =>
            req[r].rsp.body["video_metrics"] = video_result("metrics").items

CollaboratorStages == {"encoder", "extract", "transcribe", "audio", "video", "gemini"}

\* slot r has answered a rerun of the first request, both runs with a result
RerunCompleted(r) ==
    /\ Responded(r)
    /\ prev.set
    /\ req[r].input = prev.input
    /\ \A c \in CollaboratorStages : req[r].out[c] = prev.out[c]
    /\ req[r].rsp.code = 200
    /\ prev.rsp.code = 200

\* C9 as stated: the two results are equal in every field
C9_RerunEqual ==
    \A r \in Slots : RerunCompleted(r) => req[r].rsp.body = prev.rsp.body

\* C9 amended: the two results are equal in every field except that, for a
\* .webm upload that was normalised, video_file is the name mkstemp
\* allocated for the run, which differs between the two runs.
C9_RerunEqualButTempName ==
    \A r \in Slots :
        RerunCompleted(r) =>
            /\ DOMAIN req[r].rsp.body = DOMAIN prev.rsp.body
            /\ \A k \in DOMAIN prev.rsp.body \ {"video_file"} :
                    req[r].rsp.body[k] = prev.rsp.body[k]
            /\ IF req[r].out.encoder = NA
               THEN req[r].rsp.body["video_file"] = prev.rsp.body["video_file"]
               ELSE /\ req[r].rsp.body["video_file"] = req[r].out.mkstemp
                    /\ prev.rsp.body["video_file"] = prev.out.mkstemp
                    /\ req[r].rsp.body["video_file"] # prev.rsp.body["video_file"]

\* a .webm upload was normalised and completed twice
C9_Witness ==
    \E r \in Slots :
        /\ RerunCompleted(r)
        /\ req[r].input.filename = <<"clip", "webm">>
        /\ req[r].out.encoder = "ok"

\* ------------------------------------------------------------------------
\* C10
\* ------------------------------------------------------------------------

RemoveFailed(r) ==
    \E f \in {"rm_audio", "rm_original", "rm_audio_except", "rm_converted"} :
        req[r].out[f] = "OSError"

CollaboratorRaised(r) ==
    \/ \E c \in {"extract", "transcribe", "audio", "video"} : req[r].out[c] = "raise"
    \/ req[r].out.gemini.kind = "raise"

\* C10: an os.remove that raises OSError during cleanup leaves the response
\* what it is when the removal succeeds: 'Transcription failed' when the
\* transcript is None, the 200 result when every stage succeeded, the
\* collaborator's error when a collaborator raised.
C10_RemoveFailureKeepsResponse ==
    \A r \in Slots :
        Responded(r) /\ RemoveFailed(r) =>
            /\ req[r].out.transcribe = "none" =>
                    req[r].rsp.code = 500 /\ ErrorIs(r, "Transcription failed")
            /\ req[r].out.transcribe = "text" /\ ~CollaboratorRaised(r) =>
                    req[r].rsp.code = 200
            /\ CollaboratorRaised(r) =>
                    req[r].rsp.code = 500 /\ req[r].rsp.body["error"] # exception_text("OSError")

\* ------------------------------------------------------------------------
\* C12
\* ------------------------------------------------------------------------

\* the collaborators in the order of the stages that invoke them
StageOrder ==
    <<"ffmpeg", "extract_audio", "transcribe_audio", "analyze_audio_features",
      "analyze_video_features", "analyze_video_with_gemini">>

\* the position of a collaborator in StageOrder
StageIndex(c) == CHOOSE i \in 1..Len(StageOrder) : StageOrder[i] = c

\* calls follow StageOrder: one stage after the other, none twice, none
\* skipped but the optional first one
InStageOrder(calls) ==
    /\ \A i \in 1..Len(calls) : \E j \in 1..Len(StageOrder) : StageOrder[j] = calls[i]
    /\ Len(calls) > 0 => StageIndex(calls[1]) \in {1, 2}
    /\ \A i \in 1..(Len(calls) - 1) : StageIndex(calls[i + 1]) = StageIndex(calls[i]) + 1

\* C12: within a request the collaborators are invoked in the order of the
\* stages, the encoder only for .webm uploads, each only after every earlier
\* stage completed without an abort-class failure; after such a failure no
\* later collaborator is invoked.
C12_StagesInOrder ==
    \A r \in Slots :
        /\ InStageOrder(req[r].calls)
        /\ req[r].calls # <<>> =>
                req[r].saved /\ validation_error(req[r].input) = None
        /\ Invoked(r, "ffmpeg") => endswith_webm(req[r].input.filename)
        /\ Invoked(r, "extract_audio") =>
                req[r].out.encoder \in {NA, "ok"}
        /\ Invoked(r, "transcribe_audio") => req[r].out.extract = "ok"
        /\ Invoked(r, "analyze_audio_features") => req[r].out.transcribe = "text"
        /\ Invoked(r, "analyze_video_features") =>
                req[r].out.audio \in {"metrics", "none", "empty"}
        /\ Invoked(r, "analyze_video_with_gemini") =>
                req[r].out.video \in {"metrics", "none", "empty", "error"}
        /\ req[r].out.encoder \notin {NA, "ok"} => req[r].calls = <<"ffmpeg">>
        /\ req[r].out.extract \in {"false", "false_partial", "raise"} =>
                req[r].calls[Len(req[r].calls)] = "extract_audio"
        /\ req[r].out.transcribe \in {"none", "raise"} =>
                req[r].calls[Len(req[r].calls)] = "transcribe_audio"

\* a .webm request ran every stage, the encoder first and Gemini last
C12_Witness ==
    \E r \in Slots :
        /\ Responded(r)
        /\ req[r].calls = StageOrder
        /\ req[r].rsp.code = 200

\* ------------------------------------------------------------------------
\* C13
\* ------------------------------------------------------------------------

\* no stage of the request of slot r aborted or raised
NoAbort(r) ==
    /\ validation_error(req[r].input) = None
    /\ req[r].out.encoder \in {NA, "ok"}
    /\ req[r].out.extract = "ok"
    /\ req[r].out.transcribe = "text"
    /\ ~CollaboratorRaised(r)

\* C13: the accumulated results record is returned only with status
\* 'complete' and HTTP 200 and only when no abort occurred; every other
\* response is an error object with status 400 or 500, and no response
\* carries status 'processing'.
C13_ResultOnlyWhenComplete ==
    \A r \in Slots :
        Responded(r) =>
            \/ /\ req[r].rsp.code = 200
               /\ NoAbort(r)
               /\ req[r].rsp.body = req[r].results
               /\ req[r].rsp.body["status"] = "complete"
               /\ "error" \notin DOMAIN req[r].rsp.body
            \/ /\ req[r].rsp.code \in {400, 500}
               /\ ~NoAbort(r)
               /\ "error" \in DOMAIN req[r].rsp.body
               /\ "status" \notin DOMAIN req[r].rsp.body
               /\ DOMAIN req[r].rsp.body \subseteq {"error", "video_file"}
               /\ req[r].rsp.code = 400 <=> validation_error(req[r].input) # None

\* an abort after the results record was created: it is not what is returned
C13_Witness ==
    \E r \in Slots :
        /\ Responded(r)
        /\ req[r].out.transcribe = "none"
        /\ req[r].results["status"] = "processing"
        /\ req[r].rsp.code = 500

\* ------------------------------------------------------------------------
\* C14
\* ------------------------------------------------------------------------

AbortErrors ==
    {"Failed to convert .webm file to .mp4", "Audio extraction failed", "Transcription failed"}
        \cup UnhandledErrors

\* C14: every conversion-failure, extraction-failure, transcription-failure
\* and unhandled-fault response carries the filename in a video_file field.
C14_AbortCarriesFilename ==
    \A r \in Slots :
        Responded(r) /\ req[r].rsp.code = 500 /\ req[r].rsp.body["error"] \in AbortErrors =>
            /\ "video_file" \in DOMAIN req[r].rsp.body
            /\ req[r].rsp.body["video_file"] = req[r].filename

\* ------------------------------------------------------------------------
\* C15
\* ------------------------------------------------------------------------

\* the positions (1-based) of character c in text t
Positions(t, c) == {i \in 1..Len(t) : t[i] = c}

Min(S) == CHOOSE x \in S : \A y \in S : x <= y

Max(S) == CHOOSE x \in S : \A y \in S : y <= x

\* t has a '{' and a '}' and the first '{' comes before the last '}'
BracesInOrder(t) ==
    /\ Positions(t, "{") # {}
    /\ Positions(t, "}") # {}
    /\ Min(Positions(t, "{")) < Max(Positions(t, "}"))

\* the text from the first '{' to the last '}' inclusive
Embedded(t) == SubSeq(t, Min(Positions(t, "{")), Max(Positions(t, "}")))

\* slot r called Gemini, which returned an analysis text, and has answered
AnalysisReturned(r) ==
    Responded(r) /\ req[r].out.gemini.kind = "analysis"

\* C15: when Gemini returns an analysis text, the request completes with 200
\* and gemini_analysis is the parsed substring from the first '{' to the last
\* '}' when both exist in that order and the substring parses as JSON, and
\* the unmodified raw text in every other case.
C15_EmbeddedJsonOrRawText ==
    \A r \in Slots :
        AnalysisReturned(r) =>
            LET text == req[r].out.gemini.text
            IN  /\ req[r].rsp.code = 200
                /\ "gemini_analysis" \in DOMAIN req[r].rsp.body
                /\ IF BracesInOrder(text) /\ json_valid(Embedded(text))
                   THEN req[r].rsp.body["gemini_analysis"]
                            = [parsed |-> TRUE, value |-> Embedded(text)]
                   ELSE req[r].rsp.body["gemini_analysis"]
                            = [parsed |-> FALSE, value |-> text]

\* an object nested in an object, found between the first '{' and the last '}'
C15_Witness ==
    \E r \in Slots :
        /\ AnalysisReturned(r)
        /\ req[r].out.gemini.text = <<"{", "{", "k", "}", "}">>
        /\ req[r].rsp.body["gemini_analysis"].parsed

\* ------------------------------------------------------------------------
\* C16
\* ------------------------------------------------------------------------

\* the Gemini result of slot r has no "analysis" key
NoAnalysisKey(r) == req[r].out.gemini.kind \in {"error", "neither"}

\* what gemini_error is to hold for slot r
ExpectedGeminiError(r) ==
    CASE ~GEMINI_API_KEY                     -> <<"Gemini API key not configured">>
      [] req[r].out.gemini.kind = "error"    -> req[r].out.gemini.text
      [] OTHER                               -> <<"Unknown Gemini error">>

\* C16: every 200 result has exactly one of gemini_analysis and gemini_error;
\* gemini_error is there exactly when the key is not configured or the Gemini
\* result has no 'analysis' key, and holds the service's message or 'Unknown
\* Gemini error'; gemini_analysis is there exactly when Gemini was called and
\* returned an 'analysis' key.
C16_ExactlyOneGeminiField ==
    \A r \in Slots :
        Responded(r) /\ req[r].rsp.code = 200 =>
            LET body == req[r].rsp.body
                has_error == "gemini_error" \in DOMAIN body
                has_analysis == "gemini_analysis" \in DOMAIN body
            IN  /\ has_error # has_analysis
                /\ has_error <=> (~GEMINI_API_KEY \/ NoAnalysisKey(r))
                /\ has_error => body["gemini_error"] = ExpectedGeminiError(r)
                /\ has_analysis <=>
                       /\ Invoked(r, "analyze_video_with_gemini")
                       /\ req[r].out.gemini.kind = "analysis"

\* a Gemini result with neither key gives the default message
C16_Witness ==
    \E r \in Slots :
        /\ Responded(r)
        /\ req[r].rsp.code = 200
        /\ req[r].out.gemini.kind = "neither"
        /\ req[r].rsp.body["gemini_error"] = <<"Unknown Gemini error">>

\* ------------------------------------------------------------------------
\* C17
\* ------------------------------------------------------------------------

\* slot r has answered a request whose upload was saved
SavedAndResponded(r) == Responded(r) /\ req[r].saved

\* the response of slot r is the one of the except handler
UnhandledResponse(r) ==
    req[r].rsp.code = 500 /\ req[r].rsp.body["error"] \in UnhandledErrors

\* C17: after the response to a request that saved its upload, the original
\* upload or the converted file exists; the original is gone only after a
\* 200 response with a successful conversion, the converted file is gone only
\* after the response of the except handler, and never both.
C17_OneVideoFileSurvives ==
    \A r \in Slots :
        SavedAndResponded(r) =>
            /\ exists(UploadPath(r)) \/ (Converted(r) /\ exists(AllocatedPath(r)))
            /\ ~exists(UploadPath(r)) => req[r].rsp.code = 200 /\ Converted(r)
            /\ req[r].out.rm_original = "ok" <=> ~exists(UploadPath(r))
            /\ Converted(r) /\ ~exists(AllocatedPath(r)) => UnhandledResponse(r)
            /\ req[r].out.rm_converted = "ok" =>
                   Converted(r) /\ ~exists(AllocatedPath(r)) /\ exists(UploadPath(r))

\* a converted request whose analysis raised: the converted file is removed,
\* the original stays
C17_Witness ==
    \E r \in Slots :
        /\ SavedAndResponded(r)
        /\ Converted(r)
        /\ req[r].out.rm_converted = "ok"
        /\ ~exists(AllocatedPath(r))
        /\ exists(UploadPath(r))

\* ------------------------------------------------------------------------
\* C18
\* ------------------------------------------------------------------------

\* line 133: the saved upload of slot r goes through convert_webm_to_mp4
NeedsNormalization(r) == endswith_webm(secure_filename(req[r].input.filename))

\* the exits of a request that reached the pipeline
PipelineExit(r) ==
    \/ req[r].rsp.code = 200
    \/ ErrorIs(r, "Audio extraction failed")
    \/ ErrorIs(r, "Transcription failed")
    \/ UnhandledResponse(r)

\* C18: an upload that needs no normalization (its name does not end in
\* .webm, in any letter case) is never removed by the pipeline: from the
\* moment it is saved, through every stage and after every exit, it is in the
\* upload folder, and no removal of an upload or converted file is attempted.
C18_PlainUploadNeverDeleted ==
    \A r \in Slots :
        req[r].saved /\ ~NeedsNormalization(r) =>
            /\ exists(UploadPath(r))
            /\ req[r].out.rm_original = NA
            /\ req[r].out.rm_converted = NA
            /\ req[r].file_path = UploadPath(r)
            /\ Responded(r) => PipelineExit(r)

\* an .mp4 upload whose analysis raised: the except handler leaves it in place
C18_Witness ==
    \E r \in Slots :
        /\ SavedAndResponded(r)
        /\ ~NeedsNormalization(r)
        /\ UnhandledResponse(r)
        /\ exists(UploadPath(r))

\* ------------------------------------------------------------------------
\* C19
\* ------------------------------------------------------------------------

\* the two text blocks of slot r have been built (lines 186-204 have run)
Formatted(r) ==
    \/ req[r].pc = "cleanup"
    \/ Invoked(r, "analyze_video_with_gemini")
    \/ Responded(r) /\ req[r].rsp.code = 200

\* C19: once the text blocks are built, audio_metrics_str is non-empty exactly
\* when audio_metrics is in the result and video_metrics_str is non-empty
\* exactly when video_metrics is in the result; a video result with the
\* 'error' key gives neither; and a request whose analyzers both returned,
\* with or without metrics, goes on to build the blocks.
C19_BlockNonEmptyIffMetricsIncluded ==
    \A r \in Slots :
        /\ Formatted(r) =>
            /\ req[r].audio_metrics_str # <<>> <=> "audio_metrics" \in DOMAIN req[r].results
            /\ req[r].video_metrics_str # <<>> <=> "video_metrics" \in DOMAIN req[r].results
            /\ has_key(req[r].video_metrics, "error") =>
                   /\ req[r].video_metrics_str = <<>>
                   /\ "video_metrics" \notin DOMAIN req[r].results
            /\ req[r].out.audio \in {"none", "empty"} => req[r].audio_metrics_str = <<>>
            /\ req[r].out.video \in {"none", "empty"} => req[r].video_metrics_str = <<>>
            /\ req[r].out.audio = "metrics" => Len(req[r].audio_metrics_str) = 3
            /\ req[r].out.video = "metrics" => Len(req[r].video_metrics_str) = 5
        /\ req[r].out.video \notin {NA, "raise"} =>
               req[r].pc = "synthesize" \/ Formatted(r)

\* Gemini was called with a non-empty audio block and, the video result
\* carrying 'error', an empty video block
C19_Witness ==
    \E r \in Slots :
        /\ Invoked(r, "analyze_video_with_gemini")
        /\ req[r].out.video = "error"
        /\ req[r].video_metrics_str = <<>>
        /\ req[r].audio_metrics_str # <<>>
        /\ "audio_metrics" \in DOMAIN req[r].results

\* ------------------------------------------------------------------------
\* C11
\* ------------------------------------------------------------------------

\* the file the next stage of slot r reads, NoPath when it reads none
NextStageReads(r) ==
    CASE req[r].pc = "normalize"                      -> req[r].original_file_path
      [] req[r].pc \in {"extract", "analyze_video"}   -> req[r].file_path
      [] req[r].pc \in {"transcribe", "analyze_audio"} -> OUTPUT_AUDIO_FILENAME
      [] OTHER                                        -> NoPath

\* C11: two requests handled at the same time do not interfere: in every
\* interleaving of their stages, the file the next stage of an in-flight
\* request reads (its saved upload, its converted file, the audio it
\* extracted) is there as that request left it, whatever the other request
\* wrote or deleted meanwhile, as it is when the request runs alone.
C11_NoInterference ==
    \A r \in Slots :
        NextStageReads(r) # NoPath => fs[NextStageReads(r)] = "data"

====
